---- MODULE Spec2Model ----
(***************************************************************************)
(* A model of the grid world of gridworld.py / gridagents.py: the cells    *)
(* (GridPoint) with their capacity, occupant list and neighbour list, the  *)
(* world (GridWorld) with its roster of agents, its tick counter and its   *)
(* tick loop, and the agents (GridAgent) with their believed position,     *)
(* their embedded world and their current action.                          *)
(*                                                                         *)
(* A cell is the pair <<x, y>> of its coordinates (x the column, y the     *)
(* row); the Python expression self._grid[i][j] is the cell <<j, i>>.      *)
(***************************************************************************)
EXTENDS Integers, Sequences, FiniteSets, TLC

\* ---------------------------------------------------------------- bounds
\* largest time limit of a world, and largest value the calls of run take
\* the tick counter to in a world without time limit
MaxTime == 2
\* largest argument of run(ticks)
MaxTicks == 2
\* largest capacity of a cell
MaxCap == 2
\* the shapes <<h, w>> of the grids that are built
Shapes == {<<1, 2>>, <<2, 1>>, <<2, 2>>}
\* the objects that are created, and the worlds they may be created in
Agents == {"a1", "a2"}
Worlds == {"w", "other"}

\* ------------------------------------------------------- program constants
Nowhere == -1
North == 0
East == 1
South == 2
West == 3
inaction == -1
move == 0
\* Python's None (a cell is a pair, so the empty tuple is no cell)
None == <<>>
\* Python's None where a world is expected
NoWorld == "None"
\* Python's {}: the function of no key
EmptyDict == <<>>
\* a list where None may stand instead, and None there
Frontier(list) == [none |-> FALSE, list |-> list]
NoFrontier == [none |-> TRUE, list |-> <<>>]

VARIABLES
  h, w,            \* the dimensions the world was built with
  capacity,        \* GridPoint._maxOccupants of every cell
  maxTime,         \* GridWorld._maxTime
  time,            \* GridWorld._time
  occupants,       \* GridPoint._occupants of every cell (a list)
  agents,          \* GridWorld._agents: the entries [id, x, y] in insertion order
  ax, ay,          \* GridObject.x, GridObject.y: the believed position
  aworld,          \* GridObject._world
  currentAction,   \* GridAgent._currentAction: the action the agent chose last
  pc,              \* where the caller of the world is: idle, loop, agents,
                   \* sleep, done
  idx,             \* index in agents of the agent whose turn is next in _tick
  runArgs,         \* run's ticks argument, its tickCount, and _time at its start
  runStatus,       \* none, running, returned, raised
  tickRet,         \* what the last call of _tick returned
  err,             \* the exception that ended the last call, if any
  lastCall,        \* the arguments of the last chooseAction call
  obs,             \* what _applyAction returned for each agent's last action
  pre,             \* the world as it was when the current / last tick began
  neighbourList,   \* GridPoint._neighbours of every cell: the list [N, E, S, W]
  loopAt,          \* how many cells the loop of GridWorld.__init__ has served
  cellCall,        \* the last call of a method of a cell: its arguments and
                   \* the occupant list it found
  cellRet,         \* what that call returned
  objCall,         \* the last call of embed or place of an object: its
                   \* arguments, and the object's world and position before it
  map,             \* GridAgent._map of every agent: a dict of dicts
  frontier,        \* GridAgent._frontier of every agent: a list, or None
  mapCall,         \* the last call of _depthFirstExploration or _pruneMap of
                   \* an agent, and the agent's map before it
  wpc,             \* where the thread running runWorld is
  threadTime,      \* runWorld's threadTime
  threadRunTime,   \* runWorld's threadRunTime
  stop,            \* the Event globalExit is set
  worldInfo,       \* the entries 'time' and 'agent1Pos' of the dict worldValues
  rpc,             \* where the main thread is in its redraw loop
  curTime,         \* the main thread's curTime
  agentOldPos,     \* the main thread's agentOldPos
  ends,            \* where agent1 was in the world at the end of each tick
  stopTime,        \* the tick counter when globalExit was set
  moveCall         \* the last call of _applyAction with a Move toward a
                   \* target: its arguments, the world before it, its result

\* the world, its cells, its objects and its tick loop
worldVars == <<h, w, capacity, maxTime, time, occupants, agents, ax, ay,
               aworld, currentAction, pc, idx, runArgs, runStatus, tickRet,
               err, lastCall, obs, pre>>

\* the construction of the grid
gridVars == <<neighbourList, loopAt>>

\* the calls of the methods of a cell
cellVars == <<cellCall, cellRet>>

\* the calls of the methods of an object
objVars == <<objCall>>

\* the exploration state of the agents
exploreVars == <<map, frontier, mapCall>>

\* the two threads of rungrid.py and what they share
threadVars == <<wpc, threadTime, threadRunTime, stop, worldInfo, rpc, curTime,
                agentOldPos, ends, stopTime>>

\* the Moves applied outside a tick
moveVars == <<moveCall>>

\* what the world, its cells and its tick loop do not touch
aux == <<gridVars, cellVars, objVars, exploreVars, threadVars, moveVars>>

vars == <<h, w, capacity, maxTime, time, occupants, agents, ax, ay, aworld,
          currentAction, pc, idx, runArgs, runStatus, tickRet, err, lastCall,
          obs, pre, aux>>

\* ------------------------------------------------------------------ cells
Cells == {c \in (0 .. w - 1) \X (0 .. h - 1) : TRUE}

\* self._grid[i][j] does not raise IndexError (indices are never negative here)
InGrid(i, j) == i \in 0 .. h - 1 /\ j \in 0 .. w - 1

\* self._grid[i][j]
GridAt(i, j) == <<j, i>>

\* list.remove: drops the first occurrence
RECURSIVE RemoveFirst(_, _)
RemoveFirst(s, e) ==
  IF s = <<>> THEN <<>>
  ELSE IF Head(s) = e THEN Tail(s)
  ELSE <<Head(s)>> \o RemoveFirst(Tail(s), e)

\* e in list
IsIn(e, s) == \E i \in 1 .. Len(s) : s[i] = e

\* number of occurrences of e in the list s
Count(e, s) == Cardinality({i \in 1 .. Len(s) : s[i] = e})

Abs(n) == IF n < 0 THEN -n ELSE n

\* GridPoint.occupied, for the occupant lists o
occupiedStrict(o, c) == Len(o[c]) > capacity[c]
occupied(o, c) == Len(o[c]) >= capacity[c]

\* the entry self._neighbours[d] of cell c as GridWorld.__init__ builds it:
\* the cell next to c in direction d when it is in the grid and has capacity > 0
NeighbourAnyCapacity(c, d) ==
  LET row == c[2]
      col == c[1]
  IN  IF d = North /\ row > 0 THEN GridAt(row - 1, col)
      ELSE IF d = East /\ col < w - 1 THEN GridAt(row, col + 1)
      ELSE IF d = South /\ row < h - 1 THEN GridAt(row + 1, col)
      ELSE IF d = West /\ col > 0 THEN GridAt(row, col - 1)
      ELSE None
Neighbour(c, d) ==
  LET row == c[2]
      col == c[1]
  IN  IF d = North /\ row > 0 /\ capacity[GridAt(row - 1, col)] > 0
        THEN GridAt(row - 1, col)
      ELSE IF d = East /\ col < w - 1 /\ capacity[GridAt(row, col + 1)] > 0
        THEN GridAt(row, col + 1)
      ELSE IF d = South /\ row < h - 1 /\ capacity[GridAt(row + 1, col)] > 0
        THEN GridAt(row + 1, col)
      ELSE IF d = West /\ col > 0 /\ capacity[GridAt(row, col - 1)] > 0
        THEN GridAt(row, col - 1)
      ELSE None

\* self._neighbours[direction]: a Python list index, so -1 is the last entry
neighbours(c, direction) ==
  Neighbour(c, IF direction < 0 THEN direction + 4 ELSE direction)

\* GridPoint.placeOccupant(parent, occupant) on cell c; parent is "w" for
\* this world
placeOccupantAt(o, c, parent, occupant) ==
  IF parent # "w" \/ occupied(o, c)
    THEN [occ |-> o, ret |-> FALSE]
    ELSE [occ |-> [o EXCEPT ![c] = Append(@, occupant)], ret |-> TRUE]

\* GridPoint.occupy(occupant, origin) on cell c
occupy(o, c, occupant, origin) ==
  IF Abs(origin[1] - c[1]) > 1 \/ Abs(origin[2] - c[2]) > 1
    THEN [occ |-> o, ret |-> None]
  ELSE IF Len(o[c]) > capacity[c]
    THEN [occ |-> o, ret |-> None]
  ELSE [occ |-> [o EXCEPT ![c] = Append(@, occupant)], ret |-> c]

\* GridPoint.vacate(occupant, direction) on cell c, with a direction given
vacateNoRemove(o, c, occupant, direction) ==
  IF ~IsIn(occupant, o[c]) THEN [occ |-> o, ret |-> None]
  ELSE IF neighbours(c, direction) = None THEN [occ |-> o, ret |-> c]
  ELSE IF occupied(o, neighbours(c, direction)) THEN [occ |-> o, ret |-> c]
  ELSE LET r == occupy(o, neighbours(c, direction), occupant, c)
       IN  IF r.ret = None THEN [occ |-> r.occ, ret |-> c] ELSE r
vacate(o, c, occupant, direction) ==
  IF ~IsIn(occupant, o[c]) THEN [occ |-> o, ret |-> None]
  ELSE IF neighbours(c, direction) = None THEN [occ |-> o, ret |-> c]
  ELSE IF occupied(o, neighbours(c, direction)) THEN [occ |-> o, ret |-> c]
  ELSE LET removed == [o EXCEPT ![c] = RemoveFirst(@, occupant)]
           r == occupy(removed, neighbours(c, direction), occupant, c)
       IN  IF r.ret = None THEN [occ |-> r.occ, ret |-> c] ELSE r

\* GridPoint.canGo(direction) on cell c
canGo(o, c, direction) ==
  IF neighbours(c, direction) = None \/ occupied(o, neighbours(c, direction))
    THEN FALSE
    ELSE TRUE

\* GridPoint.vacate(occupant) on cell c, direction left at None: the occupant
\* disappears
vacateNone(o, c, occupant) ==
  IF ~IsIn(occupant, o[c]) THEN [occ |-> o, ret |-> None]
  ELSE [occ |-> [o EXCEPT ![c] = RemoveFirst(@, occupant)], ret |-> None]

\* GridPoint.removeOccupant(parent, occupant) on cell c
removeOccupant(o, c, parent, occupant) ==
  IF parent # "w" \/ ~IsIn(occupant, o[c])
    THEN [occ |-> o, ret |-> None]
    ELSE [occ |-> o, ret |-> occupant]

\* ----------------------------------------------------------------- roster
\* the index of the key id in self._agents, 0 when it is not a key
KeyIndex(id) ==
  IF \E i \in 1 .. Len(agents) : agents[i].id = id
    THEN CHOOSE i \in 1 .. Len(agents) : agents[i].id = id
    ELSE 0

\* self._agents[id] = [x, y, occupant]: a dict keeps the place of an old key
SetAgent(id, x, y) ==
  IF KeyIndex(id) = 0
    THEN Append(agents, [id |-> id, x |-> x, y |-> y])
    ELSE [agents EXCEPT ![KeyIndex(id)] = [id |-> id, x |-> x, y |-> y]]

\* Action(agent, code, target, direction): the position is the agent's own
Action(agent, code, direction) ==
  [agent |-> agent, actionCode |-> code, actionDirection |-> direction,
   x |-> ax[agent], y |-> ay[agent]]

\* the destination _applyAction computes for a Move
Dest(action) ==
  LET d == action.actionDirection
  IN  <<action.x + (IF d = East THEN 1 ELSE 0) - (IF d = West THEN 1 ELSE 0),
        action.y + (IF d = South THEN 1 ELSE 0) - (IF d = North THEN 1 ELSE 0)>>

\* the bounds test of _applyAction: len(self._grid) is h, len(self._grid[0]) is w
OutOfBounds(dest) ==
  dest[1] < 0 \/ dest[2] < 0 \/ dest[1] >= h \/ dest[2] >= w

\* ------------------------------------------------------------------- Init
\* Action(self, -1, None, 0), as chooseAction builds it
NoAction(agent) == Action(agent, inaction, 0)

\* an agent without the attribute _currentAction: GridAgent.__setattr__ drops
\* the assignment self._currentAction = ... of GridAgent.__init__, so the
\* attribute exists only once chooseAction has set it
Unset == [absent |-> TRUE]

\* the records of a call that has not been made
NoCall == [agent |-> "", x |-> 0, y |-> 0, occupants |-> <<>>]
NoRun == [ticks |-> 0, tickCount |-> 0, start |-> 0]
NoSnapshot ==
  [time |-> 0, occupants |-> <<>>, agents |-> <<>>, ax |-> <<>>, ay |-> <<>>]

Snapshot ==
  [time |-> time, occupants |-> occupants, agents |-> agents,
   ax |-> ax, ay |-> ay]

\* GridPoint.addNeighbour(neighbour, direction) on the list list: the list it
\* leaves and the exception it raises (on a list of three entries the
\* assignment of the West entry raises IndexError)
addNeighbour(list, neighbour, direction) ==
  IF direction > 3 \/ direction < 0
    THEN [list |-> list, err |-> "IndexError"]
  ELSE IF Len(list) < 3
    THEN [list |-> list, err |-> "ValueError"]
  ELSE IF direction + 1 > Len(list)
    THEN [list |-> list, err |-> "IndexError"]
  ELSE [list |-> [list EXCEPT ![direction + 1] = neighbour], err |-> "none"]

\* the list [N, E, S, W] a GridPoint is created with
NoNeighbours == <<None, None, None, None>>

\* the neighbour list of cell c once the loop of GridWorld.__init__ has served
\* it: addNeighbour is called for the directions that have a neighbour
RECURSIVE Linked(_, _, _)
Linked(list, c, d) ==
  IF d > West THEN list
  ELSE Linked(IF Neighbour(c, d) # None
                THEN addNeighbour(list, Neighbour(c, d), d).list
                ELSE list,
              c, d + 1)

\* the loop of GridWorld.__init__ has ended
Constructed ==
  /\ neighbourList = [c \in Cells |-> Linked(NoNeighbours, c, North)]
  /\ loopAt = h * w

\* the record of a call of a cell that has not been made
NoCellCall ==
  [op |-> "", c |-> None, occupant |-> "", parent |-> "", origin |-> None,
   direction |-> Nowhere, before |-> <<>>]

\* the record of a call of an object that has not been made
NoObjCall ==
  [op |-> "", object |-> "", world |-> NoWorld, x |-> 0, y |-> 0,
   beforeWorld |-> NoWorld, beforeX |-> 0, beforeY |-> 0]

\* the record of a call of an agent's exploration that has not been made
NoMapCall == [op |-> "", agent |-> "", before |-> EmptyDict]

\* the record of a Move toward a target that has not been applied
NoMoveCall ==
  [op |-> "", agent |-> "", target |-> None, direction |-> Nowhere,
   occupants |-> <<>>, agents |-> <<>>, ret |-> None, err |-> "none"]

\* no call of the world or of a cell has been made, no tick has begun
NoHistory ==
  /\ currentAction = [a \in Agents |-> Unset]
  /\ pc = "idle"
  /\ idx = 0
  /\ runArgs = NoRun
  /\ runStatus = "none"
  /\ tickRet = TRUE
  /\ err = "none"
  /\ lastCall = NoCall
  /\ obs = [a \in Agents |-> None]
  /\ pre = NoSnapshot
  /\ cellCall = NoCellCall
  /\ cellRet = None
  /\ objCall = NoObjCall
  /\ mapCall = NoMapCall
  /\ moveCall = NoMoveCall

\* rungrid.py is not running
NoThreads ==
  /\ wpc = "none"
  /\ threadTime = 0
  /\ threadRunTime = 0
  /\ stop = FALSE
  /\ worldInfo = [time |-> 0, agent1Pos |-> <<0, 0>>]
  /\ rpc = "none"
  /\ curTime = 0
  /\ agentOldPos = <<0, 0>>
  /\ ends = <<>>
  /\ stopTime = 0

\* the agents have explored nothing: the frontier of each is the list of the
\* coordinates it was created at
Unexplored ==
  /\ map = [a \in Agents |-> EmptyDict]
  /\ frontier = [a \in Agents |-> Frontier(<<<<ax[a], ay[a]>>>>)]

\* GridWorld(h, w, max_time, points=...) with every capacity 1 but that of
\* cell (0, 0), and the objects GridAgent(name, world=..., x=..., y=...) at
\* coordinates of the grid; nothing is placed yet. The worlds of one row or
\* one column take every parameter. A world of more rows and columns has no
\* time limit, its first object is created in it, its second object is
\* created with the default coordinates x = 0, y = 0, and, when the second
\* object is created in it too, all its cells have capacity 1
Init ==
  /\ \E s \in Shapes : h = s[1] /\ w = s[2]
  /\ \E k \in 0 .. MaxCap :
        capacity = [c \in Cells |-> IF c = <<0, 0>> THEN k ELSE 1]
  /\ maxTime \in 0 .. MaxTime
  /\ time = 0
  /\ occupants = [c \in Cells |-> <<>>]
  /\ agents = <<>>
  /\ \E p \in [Agents -> Cells] :
        /\ ax = [a \in Agents |-> p[a][1]]
        /\ ay = [a \in Agents |-> p[a][2]]
  /\ aworld \in [Agents -> Worlds]
  /\ (h > 1 /\ w > 1) =>
        /\ maxTime = 0
        /\ aworld["a1"] = "w"
        /\ ax["a2"] = 0 /\ ay["a2"] = 0
        /\ aworld["a2"] = "w" => capacity = [c \in Cells |-> 1]
  /\ NoHistory
  /\ Constructed
  /\ Unexplored
  /\ NoThreads

\* --------------------------------------------------------------- agents
\* GridAgent.chooseAction(world, x, y, occupants); direction is the value
\* round(numpy.random.uniform(-0.49999, 3.5)) draws
chooseActionAnyWorld(agent, world, direction) == Action(agent, move, direction)
chooseAction(agent, world, direction) ==
  IF world # aworld[agent]
    THEN NoAction(agent)
    ELSE Action(agent, move, direction)

\* self._grid[action.y][action.x], the cell _applyAction takes the agent to be in
currentSquareSwapped(action) == GridAt(action.x, action.y)
currentSquare(action) == GridAt(action.y, action.x)

\* GridWorld._applyAction(action): the occupant lists and the roster it
\* leaves, what it returns, and the exception it raises (newSquare.x is
\* evaluated before self._agents[...] is looked up, so a vacate that returned
\* None raises AttributeError, and a Move of an occupant the roster lacks
\* raises KeyError once vacate has acted)
applyAction(action) ==
  IF action.actionCode = inaction
    THEN [occ |-> occupants, agents |-> agents, ret |-> None, err |-> "none"]
  ELSE IF action.actionCode = move
    THEN IF ~InGrid(action.y, action.x)
           THEN [occ |-> occupants, agents |-> agents, ret |-> None,
                 err |-> "IndexError"]
         ELSE IF OutOfBounds(Dest(action))
           THEN [occ |-> occupants, agents |-> agents,
                 ret |-> currentSquare(action), err |-> "none"]
         ELSE LET newSquare == vacate(occupants, currentSquare(action),
                                      action.agent, action.actionDirection)
              IN  IF newSquare.ret = None
                    THEN [occ |-> newSquare.occ, agents |-> agents,
                          ret |-> None, err |-> "AttributeError"]
                  ELSE IF KeyIndex(action.agent) = 0
                    THEN [occ |-> newSquare.occ, agents |-> agents,
                          ret |-> None, err |-> "KeyError"]
                    ELSE [occ |-> newSquare.occ,
                          agents |-> SetAgent(action.agent, newSquare.ret[1],
                                              newSquare.ret[2]),
                          ret |-> newSquare.ret, err |-> "none"]
  ELSE [occ |-> occupants, agents |-> agents, ret |-> None, err |-> "none"]

\* GridAgent.actionResult(result) of the agent `agent` whose _currentAction
\* is `action`: the believed position it leaves and the exception it raises
actionResultFromAction(agent, action, result) ==
  IF action = Unset
    THEN [x |-> ax[agent], y |-> ay[agent], err |-> "AttributeError"]
  ELSE IF action.actionCode >= 0 /\ action.actionCode = move
    THEN [x |-> Dest(action)[1], y |-> Dest(action)[2], err |-> "none"]
    ELSE [x |-> ax[agent], y |-> ay[agent], err |-> "none"]
actionResult(agent, action, result) ==
  IF action = Unset
    THEN [x |-> ax[agent], y |-> ay[agent], err |-> "AttributeError"]
  ELSE IF action.actionCode >= 0 /\ action.actionCode = move
    THEN IF result = None
           THEN [x |-> ax[agent], y |-> ay[agent], err |-> "ValueError"]
           ELSE [x |-> result[1], y |-> result[2], err |-> "none"]
    ELSE [x |-> ax[agent], y |-> ay[agent], err |-> "none"]

\* ---------------------------------------------------------------- actions
\* GridWorld.placeOccupant(occupant, row, col, isAgent)
PlaceOccupant(occupant, row, col, isAgent) ==
  /\ pc = "idle"
  /\ agents' = IF isAgent THEN SetAgent(occupant, col, row) ELSE agents
  /\ occupants' = placeOccupantAt(occupants, GridAt(row, col), "w", occupant).occ
  /\ UNCHANGED aux
  /\ UNCHANGED <<h, w, capacity, maxTime, time, ax, ay, aworld, currentAction,
                 pc, idx, runArgs, runStatus, tickRet, err, lastCall, obs, pre>>

\* GridWorld.reset()
Reset ==
  /\ pc = "idle"
  /\ time' = 0
  /\ UNCHANGED aux
  /\ UNCHANGED <<h, w, capacity, maxTime, occupants, agents, ax, ay, aworld,
                 currentAction, pc, idx, runArgs, runStatus, tickRet, err,
                 lastCall, obs, pre>>

\* GridWorld.run(ticks) is called
RunStart(ticks) ==
  /\ pc = "idle"
  /\ pc' = "loop"
  /\ runArgs' = [ticks |-> ticks, tickCount |-> 0, start |-> time]
  /\ runStatus' = "running"
  /\ UNCHANGED aux
  /\ UNCHANGED <<h, w, capacity, maxTime, time, occupants, agents, ax, ay,
                 aworld, currentAction, idx, tickRet, err, lastCall, obs, pre>>

\* the first operand of run's loop condition
MoreTicks == runArgs.ticks = 0 \/ runArgs.tickCount < runArgs.ticks

\* the guard of _tick
HaltedLate == maxTime > 0 /\ time > maxTime
Halted == maxTime > 0 /\ time >= maxTime

\* run's loop condition is false without _tick being called: run returns
RunReturn ==
  /\ pc = "loop"
  /\ ~MoreTicks
  /\ pc' = "done"
  /\ runStatus' = "returned"
  /\ UNCHANGED aux
  /\ UNCHANGED <<h, w, capacity, maxTime, time, occupants, agents, ax, ay,
                 aworld, currentAction, idx, runArgs, tickRet, err, lastCall,
                 obs, pre>>

\* _tick is called and refuses: it returns False and run returns
TickRefused ==
  /\ pc = "loop"
  /\ MoreTicks
  /\ Halted
  /\ tickRet' = FALSE
  /\ pc' = "done"
  /\ runStatus' = "returned"
  /\ UNCHANGED aux
  /\ UNCHANGED <<h, w, capacity, maxTime, time, occupants, agents, ax, ay,
                 aworld, currentAction, idx, runArgs, err, lastCall, obs, pre>>

\* _tick is called and starts: the counter is incremented, then the agents
\* take their turns
TickBegin ==
  /\ pc = "loop"
  /\ MoreTicks
  /\ ~Halted
  /\ time' = time + 1
  /\ pc' = "agents"
  /\ idx' = 1
  /\ pre' = Snapshot
  /\ lastCall' = NoCall
  /\ obs' = [a \in Agents |-> None]
  /\ UNCHANGED aux
  /\ UNCHANGED <<h, w, capacity, maxTime, occupants, agents, ax, ay, aworld,
                 currentAction, runArgs, runStatus, tickRet, err>>

\* an exception leaves _tick and run
Raise(e) ==
  /\ err' = e
  /\ pc' = "done"
  /\ runStatus' = "raised"

\* the entry of self._agents.values() that the loop of _tick reaches i-th
agentAt(i) == agents[i]

\* one round of the loop of _tick: the agent's chooseAction, _applyAction of
\* what it chose, and the agent's actionResult
AgentStep ==
  /\ pc = "agents"
  /\ idx <= Len(agents)
  /\ LET agent == agentAt(idx)
     IN  IF ~InGrid(agent.x, agent.y)
           THEN /\ Raise("IndexError")
                /\ UNCHANGED <<occupants, agents, ax, ay, currentAction, idx,
                               lastCall, obs>>
           ELSE \E direction \in North .. West :
                  LET action == chooseAction(agent.id, "w", direction)
                      applied == applyAction(action)
                      result == actionResult(agent.id, action, applied.ret)
                  IN  /\ lastCall' = [agent |-> agent.id, x |-> agent.x,
                                      y |-> agent.y,
                                      occupants |->
                                        occupants[GridAt(agent.x, agent.y)]]
                      /\ currentAction' =
                           [currentAction EXCEPT ![agent.id] = action]
                      /\ occupants' = applied.occ
                      /\ agents' = applied.agents
                      /\ IF applied.err # "none"
                           THEN /\ Raise(applied.err)
                                /\ UNCHANGED <<ax, ay, idx, obs>>
                           ELSE /\ obs' = [obs EXCEPT ![agent.id] = applied.ret]
                                /\ ax' = [ax EXCEPT ![agent.id] = result.x]
                                /\ ay' = [ay EXCEPT ![agent.id] = result.y]
                                /\ IF result.err # "none"
                                     THEN Raise(result.err) /\ UNCHANGED idx
                                     ELSE /\ idx' = idx + 1
                                          /\ UNCHANGED <<pc, runStatus, err>>
  /\ UNCHANGED aux
  /\ UNCHANGED <<h, w, capacity, maxTime, time, aworld, runArgs, tickRet, pre>>

\* _tick has served every agent: it returns True, and run prints the time
\* and sleeps
TickEnd ==
  /\ pc = "agents"
  /\ idx > Len(agents)
  /\ tickRet' = TRUE
  /\ pc' = "sleep"
  /\ UNCHANGED aux
  /\ UNCHANGED <<h, w, capacity, maxTime, time, occupants, agents, ax, ay,
                 aworld, currentAction, idx, runArgs, runStatus, err, lastCall,
                 obs, pre>>

\* time.sleep of run has returned: run counts the tick and tests its loop
\* condition again
TickCounted ==
  /\ pc = "sleep"
  /\ runArgs' = [runArgs EXCEPT !.tickCount = @ + 1]
  /\ pc' = "loop"
  /\ UNCHANGED aux
  /\ UNCHANGED <<h, w, capacity, maxTime, time, occupants, agents, ax, ay,
                 aworld, currentAction, idx, runStatus, tickRet, err, lastCall,
                 obs, pre>>

\* run has ended and its caller goes on: what the model recorded about the
\* call is dropped
Returned ==
  /\ pc = "done"
  /\ pc' = "idle"
  /\ idx' = 0
  /\ runArgs' = NoRun
  /\ runStatus' = "none"
  /\ tickRet' = TRUE
  /\ err' = "none"
  /\ lastCall' = NoCall
  /\ obs' = [a \in Agents |-> None]
  /\ pre' = NoSnapshot
  /\ UNCHANGED <<h, w, capacity, maxTime, time, occupants, agents, ax, ay,
                 aworld, currentAction>>

\* run has ended and its caller, which is not runWorld, goes on
Return ==
  /\ Returned
  /\ UNCHANGED aux

\* the arguments run is called with: any number of ticks in a world with a
\* time limit, and in a world without one a number of ticks that takes the
\* counter to MaxTime at most (run(0) never returns there)
RunTicks ==
  {ticks \in 0 .. MaxTicks :
     maxTime > 0 \/ (ticks > 0 /\ time + ticks <= MaxTime)}

\* an object is placed at its own coordinates, as runWorld places agent1:
\* world.placeOccupant(agent1, agent1.y, agent1.x, True)
Next ==
  \/ \E a \in Agents, isAgent \in BOOLEAN :
        PlaceOccupant(a, ay[a], ax[a], isAgent)
  \/ Reset
  \/ \E ticks \in RunTicks : RunStart(ticks)
  \/ RunReturn
  \/ TickRefused
  \/ TickBegin
  \/ AgentStep
  \/ TickEnd
  \/ TickCounted
  \/ Return

Spec == Init /\ [][Next]_vars

\* ---------------------------------------------------- notions of the claims
\* a tick of the run under way has begun
Ticked == pc # "idle" /\ pre # NoSnapshot

\* the position the roster ags records for id, None when id is not a key
RosterPos(ags, id) ==
  IF \E i \in 1 .. Len(ags) : ags[i].id = id
    THEN LET i == CHOOSE j \in 1 .. Len(ags) : ags[j].id = id
         IN  <<ags[i].x, ags[i].y>>
    ELSE None

\* how many times a occurs in the occupant list of each cell, and the cells
\* whose list it occurs in
Presence(a, o) == [c \in Cells |-> Count(a, o[c])]
CellsOf(a, o) == {c \in Cells : IsIn(a, o[c])}

\* a is correctly placed: it is in the roster, it occupies one cell, once, and
\* both the roster and the agent itself hold that cell's coordinates
PlacedIn(a, o, ags, bx, by) ==
  /\ RosterPos(ags, a) # None
  /\ RosterPos(ags, a) = <<bx[a], by[a]>>
  /\ CellsOf(a, o) = {RosterPos(ags, a)}
  /\ Count(a, o[RosterPos(ags, a)]) = 1
Placed(a) == PlacedIn(a, occupants, agents, ax, ay)
PlacedAtTickStart(a) == Ticked /\ PlacedIn(a, pre.occupants, pre.agents, pre.ax, pre.ay)

\* a has had its turn in the tick under way (or the last tick of the run)
Acted(a) == Ticked /\ KeyIndex(a) # 0 /\ KeyIndex(a) < idx

\* a chose a Move in its turn; the cell it moved from and the cell it proposed
Moved(a) == Acted(a) /\ currentAction[a].actionCode = move
Origin(a) == <<currentAction[a].x, currentAction[a].y>>
Proposed(a) == Dest(currentAction[a])

\* the step is the turn of a in _tick and a's chooseAction is called in it
TurnOf(a) ==
  /\ pc = "agents"
  /\ idx <= Len(agents)
  /\ agentAt(idx).id = a
  /\ lastCall'.agent = a

\* ----------------------------------------------------------------- claims
\* C1: after any sequence of placeOccupant calls and ticks, every cell holds
\* at most as many occupants as its capacity.
C1_OccupantsWithinCapacity ==
  \A c \in Cells : Len(occupants[c]) <= capacity[c]

\* a Move of a tick has filled a cell of capacity 2 or more to its capacity
C1_Witness ==
  /\ Ticked
  /\ \E c \in Cells :
        /\ capacity[c] >= 2
        /\ Len(occupants[c]) = capacity[c]
        /\ Len(pre.occupants[c]) < Len(occupants[c])

\* C2: a Move is atomic. When vacate(occupant, direction) is called on the cell
\* the occupant is in (and in no other), the occupant is afterwards in exactly
\* one of the original cell and the destination cell; if vacate returned the
\* original cell the occupant is in the original cell, and if it returned the
\* neighbour the occupant is in the neighbour only.
C2_VacateAtomic ==
  \A a \in Agents :
    (Moved(a) /\ PlacedAtTickStart(a) /\ ~OutOfBounds(Proposed(a))) =>
      LET target == neighbours(Origin(a), currentAction[a].actionDirection)
          inOrigin == IsIn(a, occupants[Origin(a)])
          inTarget == target # None /\ IsIn(a, occupants[target])
      IN  /\ inOrigin # inTarget
          /\ obs[a] = Origin(a) \/ (target # None /\ obs[a] = target)
          /\ obs[a] = Origin(a) => inOrigin
          /\ obs[a] # Origin(a) => inTarget /\ ~inOrigin
          /\ \E c \in Cells :
                CellsOf(a, occupants) = {c} /\ Count(a, occupants[c]) = 1

\* vacate has moved an occupant into the neighbour
C2_Witness ==
  \E a \in Agents :
    /\ Moved(a) /\ PlacedAtTickStart(a) /\ ~OutOfBounds(Proposed(a))
    /\ obs[a] # Origin(a)
    /\ obs[a] = neighbours(Origin(a), currentAction[a].actionDirection)
    /\ IsIn(a, occupants[obs[a]])

\* two agents, the first registered before the second, both correctly placed,
\* have proposed in the same tick a Move into the same cell, of capacity 1 and
\* free when the tick began
SameTarget(first, second) ==
  /\ first # second
  /\ Moved(first) /\ Moved(second)
  /\ KeyIndex(first) < KeyIndex(second)
  /\ PlacedAtTickStart(first) /\ PlacedAtTickStart(second)
  /\ Proposed(first) = Proposed(second)
  /\ Proposed(first) \in Cells
  /\ capacity[Proposed(first)] = 1
  /\ pre.occupants[Proposed(first)] = <<>>

\* C3 (as claimed): when two registered agents both propose a Move into the same free cell
\* of capacity 1 in the same tick, the agent registered first occupies that
\* cell and the agent registered second is still in its original cell, with
\* its believed position unchanged.
C3_RegistrationOrderWins ==
  \A first, second \in Agents :
    SameTarget(first, second) =>
      /\ occupants[Proposed(first)] = <<first>>
      /\ IsIn(second, occupants[Origin(second)])
      /\ <<ax[second], ay[second]>> = Origin(second)
      /\ <<ax[second], ay[second]>> = <<pre.ax[second], pre.ay[second]>>
      /\ <<ax[first], ay[first]>> = Proposed(first)

\* C4 (as claimed): while an agent's turn of a tick is still to come or under
\* way, the tick counter holds the value it had before the tick began.
C4_CounterHeldDuringTick ==
  (pc = "agents" /\ idx <= Len(agents)) => time = pre.time

\* C5 (as claimed): chooseAction is called with the occupant list of the cell
\* at the agent's recorded position, which contains the agent.
C5_SeesOwnCell ==
  (Ticked /\ lastCall.agent # "" /\ PlacedAtTickStart(lastCall.agent)) =>
    /\ IsIn(lastCall.agent, lastCall.occupants)
    /\ lastCall.occupants = pre.occupants[<<lastCall.x, lastCall.y>>]

\* C6: after its turn in a tick, a correctly placed agent is still correctly
\* placed; if it chose a Move, its believed position is the cell observed,
\* which holds it, and when the Move was rejected (the cell observed is not the
\* destination proposed) the believed position is the one it had before.
C6_BelievedFollowsObservation ==
  \A a \in Agents :
    (Acted(a) /\ PlacedAtTickStart(a)) =>
      /\ Placed(a)
      /\ Moved(a) =>
           /\ obs[a] = <<ax[a], ay[a]>>
           /\ IsIn(a, occupants[obs[a]])
           /\ obs[a] # Proposed(a) =>
                /\ <<ax[a], ay[a]>> = <<pre.ax[a], pre.ay[a]>>
                /\ <<ax[a], ay[a]>> = Origin(a)

\* a Move into a cell of the grid has been rejected
C6_Witness ==
  \E a \in Agents :
    /\ Moved(a) /\ PlacedAtTickStart(a)
    /\ Proposed(a) \in Cells
    /\ obs[a] # Proposed(a)
    /\ <<ax[a], ay[a]>> = Origin(a)

\* C7: a Move of a correctly placed agent whose destination is outside the
\* grid is rejected without error: the observation is the agent's cell, and
\* the occupant lists, the roster and the believed positions are unchanged.
C7_OutsideMoveRejected ==
  [][\A a \in Agents :
       (/\ TurnOf(a)
        /\ Placed(a)
        /\ currentAction'[a].actionCode = move
        /\ Dest(currentAction'[a]) \notin Cells) =>
          /\ err' = "none"
          /\ obs'[a] = <<ax[a], ay[a]>>
          /\ occupants' = occupants
          /\ agents' = agents
          /\ ax' = ax /\ ay' = ay]_vars

\* the agent at (0, 0) has proposed a Move West and was given its own cell
C7_Witness ==
  \E a \in Agents :
    /\ Moved(a) /\ PlacedAtTickStart(a)
    /\ Origin(a) = <<0, 0>>
    /\ currentAction[a].actionDirection = West
    /\ obs[a] = <<0, 0>>
    /\ <<ax[a], ay[a]>> = <<0, 0>>

\* C8: with a maximum tick count M > 0 the tick counter never exceeds M, and a
\* tick attempted when the counter has reached M is refused: _tick returns
\* False, no agent is queried, and the counter, the occupant lists and the
\* roster are unchanged.
C8_MaxTimeGuard ==
  [][/\ maxTime > 0 => time' <= maxTime
     /\ (pc = "loop" /\ MoreTicks /\ maxTime > 0 /\ time >= maxTime) =>
          /\ tickRet' = FALSE
          /\ pc' = "done"
          /\ lastCall' = lastCall
          /\ currentAction' = currentAction
          /\ time' = time
          /\ occupants' = occupants
          /\ agents' = agents
          /\ ax' = ax /\ ay' = ay]_vars

\* a tick has been refused with the counter at M
C8_Witness ==
  pc = "done" /\ tickRet = FALSE /\ maxTime > 0 /\ time = maxTime

\* the number of ticks run(ticks) is claimed to make
Min(m, n) == IF m < n THEN m ELSE n
ClaimedTicks ==
  IF maxTime > 0
    THEN Min(runArgs.ticks, maxTime - runArgs.start)
    ELSE runArgs.ticks

\* every agent of the roster was correctly placed when the last tick began
AllPlacedAtTickStart ==
  Ticked => \A i \in 1 .. Len(pre.agents) : PlacedAtTickStart(pre.agents[i].id)

\* C9 (as claimed): when run(n), n > 0, has stopped, the tick counter has
\* advanced by min(n, M - time) if M > 0 and by n if M = 0; when run(0) has
\* stopped with M > 0, the counter is M. (Stated for worlds whose agents are
\* all correctly placed.)
C9_RunAdvances ==
  (pc = "done" /\ AllPlacedAtTickStart) =>
    IF runArgs.ticks > 0
      THEN time - runArgs.start = ClaimedTicks
      ELSE maxTime > 0 => time = maxTime

\* C10: an agent that is not embedded in the world that calls it returns
\* NoAction from chooseAction, and the turn of an agent that returns NoAction
\* changes no occupant list, no roster entry and no believed position; at the
\* end of its turn the agent is where it was when the tick began.
C10_ForeignAgentIdle ==
  [][\A a \in Agents :
       /\ (TurnOf(a) /\ aworld[a] # "w") =>
             currentAction'[a].actionCode = inaction
       /\ (TurnOf(a) /\ currentAction'[a].actionCode = inaction) =>
             /\ err' = "none"
             /\ occupants' = occupants
             /\ agents' = agents
             /\ ax' = ax /\ ay' = ay
             /\ Presence(a, occupants') = Presence(a, pre.occupants)
             /\ RosterPos(agents', a) = RosterPos(pre.agents, a)
             /\ <<ax'[a], ay'[a]>> = <<pre.ax[a], pre.ay[a]>>]_vars

\* a placed agent of another world has had its turn after an agent that moved
C10_Witness ==
  \E a, b \in Agents :
    /\ Acted(a) /\ PlacedAtTickStart(a)
    /\ aworld[a] # "w"
    /\ currentAction[a].actionCode = inaction
    /\ Moved(b) /\ obs[b] # Origin(b)
    /\ KeyIndex(b) < KeyIndex(a)

\* ------------------------------------------- the construction of the grid
\* GridWorld(h, w, points=...) when the loop that builds the adjacency tables
\* starts: any capacities, every cell with the list it was created with
InitGrid ==
  /\ \E s \in Shapes : h = s[1] /\ w = s[2]
  /\ capacity \in [Cells -> 0 .. MaxCap]
  /\ maxTime = 0
  /\ time = 0
  /\ occupants = [c \in Cells |-> <<>>]
  /\ agents = <<>>
  /\ ax = [a \in Agents |-> 0]
  /\ ay = [a \in Agents |-> 0]
  /\ aworld = [a \in Agents |-> "w"]
  /\ NoHistory
  /\ neighbourList = [c \in Cells |-> NoNeighbours]
  /\ loopAt = 0
  /\ Unexplored
  /\ NoThreads

\* one round of the loops of GridWorld.__init__, which serve the cells row by
\* row
BuildCell ==
  /\ loopAt < h * w
  /\ LET row == loopAt \div w
         col == loopAt % w
     IN  neighbourList' =
           [neighbourList EXCEPT ![GridAt(row, col)] =
              Linked(@, GridAt(row, col), North)]
  /\ loopAt' = loopAt + 1
  /\ UNCHANGED <<worldVars, cellVars, objVars, exploreVars, threadVars,
                 moveVars>>

NextGrid == BuildCell

SpecGrid == InitGrid /\ [][NextGrid]_vars

\* the coordinates of c offset by one step in direction d
Offset(c, d) ==
  IF d = North THEN <<c[1], c[2] - 1>>
  ELSE IF d = East THEN <<c[1] + 1, c[2]>>
  ELSE IF d = South THEN <<c[1], c[2] + 1>>
  ELSE <<c[1] - 1, c[2]>>

Opposite(d) == (d + 2) % 4

\* C11: once the world is constructed, the neighbour of every cell in every
\* direction is the cell one step away in that direction when that cell is
\* in the grid and has capacity > 0, and None otherwise; so no neighbour has
\* capacity 0, and a cell of capacity > 0 is the opposite neighbour of each
\* of its neighbours
C11_NeighboursAreOffsets ==
  loopAt = h * w =>
    \A c \in Cells, d \in North .. West :
      LET t == Offset(c, d)
          n == neighbourList[c][d + 1]
      IN  /\ n = (IF t \in Cells /\ capacity[t] > 0 THEN t ELSE None)
          /\ n # None => capacity[n] > 0
          /\ (n # None /\ capacity[c] > 0) =>
                neighbourList[n][Opposite(d) + 1] = c

\* a constructed 2 x 2 world with a cell of capacity 0, which nothing leads
\* into, and two cells that are each other's neighbours
C11_Witness ==
  /\ loopAt = h * w
  /\ h = 2
  /\ w = 2
  /\ \E c \in Cells, d \in North .. West :
        /\ Offset(c, d) \in Cells
        /\ capacity[Offset(c, d)] = 0
        /\ neighbourList[c][d + 1] = None
  /\ \E c \in Cells, d \in North .. West :
        /\ neighbourList[c][d + 1] # None
        /\ neighbourList[neighbourList[c][d + 1]][Opposite(d) + 1] = c

\* ------------------------------------------------- the methods of a cell
\* the coordinate pairs a caller passes as origin: those of the grid and
\* those one step outside it
Origins == (-1 .. w) \X (-1 .. h)

\* the call op of cell c with these arguments gave the result r
CellCalled(op, c, occupant, parent, origin, direction, r) ==
  /\ pc = "idle"
  /\ cellCall' = [op |-> op, c |-> c, occupant |-> occupant,
                  parent |-> parent, origin |-> origin,
                  direction |-> direction, before |-> occupants[c]]
  /\ cellRet' = r.ret
  /\ occupants' = r.occ
  /\ UNCHANGED <<h, w, capacity, maxTime, time, agents, ax, ay, aworld,
                 currentAction, pc, idx, runArgs, runStatus, tickRet, err,
                 lastCall, obs, pre>>
  /\ UNCHANGED <<gridVars, objVars, exploreVars, threadVars, moveVars>>

\* c.placeOccupant(parent, occupant)
CellPlaceOccupant(c, parent, occupant) ==
  CellCalled("placeOccupant", c, occupant, parent, None, Nowhere,
             placeOccupantAt(occupants, c, parent, occupant))

\* c.removeOccupant(parent, occupant)
CellRemoveOccupant(c, parent, occupant) ==
  CellCalled("removeOccupant", c, occupant, parent, None, Nowhere,
             removeOccupant(occupants, c, parent, occupant))

\* c.occupy(occupant, origin)
CellOccupy(c, occupant, origin) ==
  CellCalled("occupy", c, occupant, "", origin, Nowhere,
             occupy(occupants, c, occupant, origin))

\* c.vacate(occupant, direction)
CellVacate(c, occupant, direction) ==
  CellCalled("vacate", c, occupant, "", None, direction,
             vacate(occupants, c, occupant, direction))

\* c.vacate(occupant)
CellVacateNone(c, occupant) ==
  CellCalled("vacateNone", c, occupant, "", None, Nowhere,
             vacateNone(occupants, c, occupant))

NextCell ==
  \/ \E c \in Cells, parent \in Worlds, occupant \in Agents :
        CellPlaceOccupant(c, parent, occupant)
  \/ \E c \in Cells, parent \in Worlds, occupant \in Agents :
        CellRemoveOccupant(c, parent, occupant)
  \/ \E c \in Cells, occupant \in Agents, origin \in Origins :
        CellOccupy(c, occupant, origin)
  \/ \E c \in Cells, occupant \in Agents, direction \in North .. West :
        CellVacate(c, occupant, direction)
  \/ \E c \in Cells, occupant \in Agents : CellVacateNone(c, occupant)

\* a constructed world of one row or one column whose cells are called
\* directly
InitCell ==
  /\ \E s \in Shapes : (s[1] = 1 \/ s[2] = 1) /\ h = s[1] /\ w = s[2]
  /\ \E k \in 0 .. MaxCap :
        capacity = [c \in Cells |-> IF c = <<0, 0>> THEN k ELSE 1]
  /\ maxTime = 0
  /\ time = 0
  /\ occupants = [c \in Cells |-> <<>>]
  /\ agents = <<>>
  /\ ax = [a \in Agents |-> 0]
  /\ ay = [a \in Agents |-> 0]
  /\ aworld = [a \in Agents |-> "w"]
  /\ NoHistory
  /\ Constructed
  /\ Unexplored
  /\ NoThreads

SpecCell == InitCell /\ [][NextCell]_vars

\* C12: a cell of capacity 0 never has an occupant
C12_ZeroCapacityStaysEmpty ==
  \A c \in Cells : capacity[c] = 0 => occupants[c] = <<>>

\* C13: occupy(occupant, origin) returns None and leaves the occupant list
\* alone when the origin is more than one step away in x or in y or when one
\* more occupant would exceed the capacity; otherwise it appends the occupant
\* and returns the cell
C13_OccupyGuards ==
  cellCall.op = "occupy" =>
    LET c == cellCall.c
        far == \/ Abs(cellCall.origin[1] - c[1]) > 1
               \/ Abs(cellCall.origin[2] - c[2]) > 1
        full == Len(cellCall.before) + 1 > capacity[c]
    IN  IF far \/ full
          THEN cellRet = None /\ occupants[c] = cellCall.before
          ELSE /\ cellRet = c
               /\ occupants[c] = Append(cellCall.before, cellCall.occupant)

\* C14: removeOccupant(parent, occupant) called by the world of the cell for
\* an occupant of the cell takes it off the occupant list and returns it;
\* called by another parent or for another object it returns None and leaves
\* the list alone
C14_RemoveOccupantRemoves ==
  cellCall.op = "removeOccupant" =>
    LET c == cellCall.c
    IN  IF cellCall.parent = "w" /\ IsIn(cellCall.occupant, cellCall.before)
          THEN /\ cellRet = cellCall.occupant
               /\ occupants[c] = RemoveFirst(cellCall.before, cellCall.occupant)
          ELSE cellRet = None /\ occupants[c] = cellCall.before

\* ---------------------------------------------- the methods of an object
\* the attributes GridObject.__setattr__ refuses to set
Guarded == {"_objectName", "_objectID", "_world", "_static"}

\* self.name = new on a GridAgent whose attribute name holds old: the value
\* the attribute holds afterwards
setattrUnguarded(name, old, new) == new
setattr(name, old, new) ==
  IF name = "_currentAction" THEN old
  ELSE IF name \in Guarded THEN old
  ELSE new

\* the world and the position of object a after a.place(world, x, y)
place(a, world, x, y) ==
  LET world1 == IF aworld[a] = NoWorld
                  THEN setattr("_world", aworld[a], world)
                  ELSE aworld[a]
  IN  IF world1 = world
        THEN [world |-> world1, x |-> setattr("x", ax[a], x),
              y |-> setattr("y", ay[a], y)]
        ELSE [world |-> world1, x |-> ax[a], y |-> ay[a]]

\* the call op of object a with these arguments left it with world, x and y
ObjCalled(op, a, world, x, y, after) ==
  /\ pc = "idle"
  /\ objCall' = [op |-> op, object |-> a, world |-> world, x |-> x, y |-> y,
                 beforeWorld |-> aworld[a], beforeX |-> ax[a],
                 beforeY |-> ay[a]]
  /\ aworld' = [aworld EXCEPT ![a] = after.world]
  /\ ax' = [ax EXCEPT ![a] = after.x]
  /\ ay' = [ay EXCEPT ![a] = after.y]
  /\ UNCHANGED <<h, w, capacity, maxTime, time, occupants, agents,
                 currentAction, pc, idx, runArgs, runStatus, tickRet, err,
                 lastCall, obs, pre>>
  /\ UNCHANGED <<gridVars, cellVars, exploreVars, threadVars, moveVars>>

\* a.embed(world)
Embed(a, world) ==
  ObjCalled("embed", a, world, 0, 0,
            [world |-> setattr("_world", aworld[a], world),
             x |-> ax[a], y |-> ay[a]])

\* a.place(world, x, y)
Place(a, world, x, y) ==
  ObjCalled("place", a, world, x, y, place(a, world, x, y))

NextObject ==
  \/ \E a \in Agents, world \in Worlds \cup {NoWorld} : Embed(a, world)
  \/ \E a \in Agents, world \in Worlds \cup {NoWorld}, c \in Cells :
        Place(a, world, c[1], c[2])

\* a constructed world and the objects GridAgent(name, world=..., x=...,
\* y=...), created in a world or in none
InitObject ==
  /\ \E s \in Shapes : h = s[1] /\ w = s[2]
  /\ capacity = [c \in Cells |-> 1]
  /\ maxTime = 0
  /\ time = 0
  /\ occupants = [c \in Cells |-> <<>>]
  /\ agents = <<>>
  /\ \E p \in [Agents -> Cells] :
        /\ ax = [a \in Agents |-> p[a][1]]
        /\ ay = [a \in Agents |-> p[a][2]]
  /\ aworld \in [Agents -> Worlds \cup {NoWorld}]
  /\ NoHistory
  /\ Constructed
  /\ Unexplored
  /\ NoThreads

SpecObject == InitObject /\ [][NextObject]_vars

\* C15: embed or place called on an object that has a world leaves it with
\* that world, and called with another world leaves its position alone too
C15_WorldNeverChanges ==
  (objCall.op \in {"embed", "place"} /\ objCall.beforeWorld # NoWorld) =>
    /\ aworld[objCall.object] = objCall.beforeWorld
    /\ objCall.world # objCall.beforeWorld =>
          /\ ax[objCall.object] = objCall.beforeX
          /\ ay[objCall.object] = objCall.beforeY

\* place was called with another world than the object's and other
\* coordinates than the object's
C15_Witness ==
  /\ objCall.op = "place"
  /\ objCall.beforeWorld = "w"
  /\ objCall.world = "other"
  /\ <<objCall.x, objCall.y>> # <<objCall.beforeX, objCall.beforeY>>

\* --------------------------------------------- the run of a single agent
\* the state runWorld is in when its loop starts: a world with a time limit,
\* and one agent of that world, created at the coordinates of a cell that
\* has room and placed there
InitExplore ==
  /\ \E s \in Shapes : h = s[1] /\ w = s[2]
  /\ \E k \in 0 .. MaxCap :
        capacity = [c \in Cells |-> IF c = <<0, 0>> THEN k ELSE 1]
  /\ maxTime \in 1 .. MaxTime
  /\ time = 0
  /\ \E c \in Cells :
        /\ capacity[c] > 0
        /\ ax = [a \in Agents |-> IF a = "a1" THEN c[1] ELSE 0]
        /\ ay = [a \in Agents |-> IF a = "a1" THEN c[2] ELSE 0]
        /\ occupants = [d \in Cells |-> IF d = c THEN <<"a1">> ELSE <<>>]
        /\ agents = <<[id |-> "a1", x |-> c[1], y |-> c[2]]>>
        /\ frontier = [a \in Agents |->
                         Frontier(<<IF a = "a1" THEN c ELSE <<0, 0>> >>)]
  /\ map = [a \in Agents |-> EmptyDict]
  /\ aworld = [a \in Agents |-> "w"]
  /\ NoHistory
  /\ Constructed
  /\ NoThreads

NextExplore ==
  \/ \E ticks \in 0 .. MaxTicks : RunStart(ticks)
  \/ RunReturn
  \/ TickRefused
  \/ TickBegin
  \/ AgentStep
  \/ TickEnd
  \/ TickCounted
  \/ Return

SpecExplore == InitExplore /\ [][NextExplore]_vars

\* the program is one thread that keeps running: a step that can be taken
\* is taken
SpecExploreFair == SpecExplore /\ WF_vars(NextExplore)

\* a still has cells to explore
Exploring(a) == ~frontier[a].none /\ frontier[a].list # <<>>

\* the directions that, when the tick began, a could go in from its cell and
\* that lead to coordinates that are no key of its map
OpenDirections(a) ==
  LET c == <<pre.ax[a], pre.ay[a]>>
  IN  {d \in North .. West :
         canGo(pre.occupants, c, d) /\ Offset(c, d) \notin DOMAIN map[a]}

\* C16: an agent that is alone in the world, correctly placed and still
\* exploring, and that can go in some direction to coordinates that are no
\* key of its map, proposes a Move in the first such direction in the order
\* North, East, South, West
C16_FirstOpenDirection ==
  \A a \in Agents :
    (/\ Acted(a)
     /\ PlacedAtTickStart(a)
     /\ Len(pre.agents) = 1
     /\ Exploring(a)
     /\ OpenDirections(a) # {}) =>
      /\ currentAction[a].actionCode = move
      /\ currentAction[a].actionDirection \in OpenDirections(a)
      /\ \A d \in OpenDirections(a) : currentAction[a].actionDirection <= d

\* the number of cells in the frontier of a
FrontierSize(a) == IF frontier[a].none THEN 0 ELSE Len(frontier[a].list)

\* C17: in the run of a single agent the frontier never grows, and it is
\* eventually empty
C17_FrontierShrinksToEmpty ==
  /\ [][FrontierSize("a1")' <= FrontierSize("a1")]_vars
  /\ <>(FrontierSize("a1") = 0)

\* ------------------------------------------------- the map of an agent
\* d[k] = v on the dict d
DictSet(d, k, v) ==
  [kk \in DOMAIN d \cup {k} |-> IF kk = k THEN v ELSE d[kk]]

\* GridAgent._depthFirstExploration(world, x, y) of agent a: the map it
\* leaves and the action it returns
depthFirstExploration(a, x, y) ==
  [map |-> DictSet(map[a], <<x, y>>,
                   DictSet(EmptyDict, <<x + 1, y + 1>>, EmptyDict)),
   action |-> Action(a, inaction, -1)]

\* GridAgent._pruneMap() of agent a: the map and the frontier it leaves
pruneMap(a) ==
  [map |-> map[a],
   frontier |-> IF frontier[a].none
                  THEN frontier[a]
                  ELSE setattr("_frontier", frontier[a], NoFrontier)]

\* a._depthFirstExploration(world, x, y)
DepthFirstExploration(a, x, y) ==
  /\ pc = "idle"
  /\ mapCall' = [op |-> "_depthFirstExploration", agent |-> a,
                 before |-> map[a]]
  /\ map' = [map EXCEPT ![a] = depthFirstExploration(a, x, y).map]
  /\ currentAction' =
       [currentAction EXCEPT ![a] = depthFirstExploration(a, x, y).action]
  /\ UNCHANGED <<h, w, capacity, maxTime, time, occupants, agents, ax, ay,
                 aworld, pc, idx, runArgs, runStatus, tickRet, err, lastCall,
                 obs, pre>>
  /\ UNCHANGED <<gridVars, cellVars, objVars, frontier, threadVars,
                 moveVars>>

\* a._pruneMap()
PruneMap(a) ==
  /\ pc = "idle"
  /\ mapCall' = [op |-> "_pruneMap", agent |-> a, before |-> map[a]]
  /\ map' = [map EXCEPT ![a] = pruneMap(a).map]
  /\ frontier' = [frontier EXCEPT ![a] = pruneMap(a).frontier]
  /\ UNCHANGED worldVars
  /\ UNCHANGED <<gridVars, cellVars, objVars, threadVars, moveVars>>

NextMap ==
  \/ \E c \in Cells : DepthFirstExploration("a1", c[1], c[2])
  \/ PruneMap("a1")

\* an agent created at the default coordinates in a constructed world: its
\* map is the empty dict GridAgent.__init__ gives it, and grows only by the
\* calls of _depthFirstExploration
InitMap ==
  /\ \E s \in Shapes : h = s[1] /\ w = s[2]
  /\ capacity = [c \in Cells |-> 1]
  /\ maxTime = 0
  /\ time = 0
  /\ occupants = [c \in Cells |-> <<>>]
  /\ agents = <<>>
  /\ ax = [a \in Agents |-> 0]
  /\ ay = [a \in Agents |-> 0]
  /\ aworld = [a \in Agents |-> "w"]
  /\ NoHistory
  /\ Constructed
  /\ Unexplored
  /\ NoThreads

SpecMap == InitMap /\ [][NextMap]_vars

\* the number of edges the map m records for its key k
Edges(m, k) == Cardinality(DOMAIN m[k])

\* every key of a map the agent has built has exactly one edge, to the cell
\* one step South-East of it: no call leaves a key with two edges
OneEdgePerKey ==
  \A a \in Agents : \A k \in DOMAIN map[a] :
    /\ Edges(map[a], k) = 1
    /\ DOMAIN map[a][k] = {<<k[1] + 1, k[2] + 1>>}

\* ------------------------------------------- the two threads of rungrid.py
\* stop.is_set()
stopIgnored == FALSE
stopIsSet == stop

\* (agent1.x, agent1.y)
agent1PosSwapped == <<ay["a1"], ax["a1"]>>
agent1Pos == <<ax["a1"], ay["a1"]>>

\* a step of the thread running runWorld that is no step of world.run
WorldStep(from, to) ==
  /\ wpc = from
  /\ wpc' = to
  /\ UNCHANGED <<worldVars, gridVars, cellVars, objVars, exploreVars,
                 moveVars>>
  /\ UNCHANGED <<rpc, curTime, agentOldPos, stopTime, stop>>

\* while threadTime < threadRunTime
WTest ==
  /\ WorldStep("test", IF threadTime < threadRunTime THEN "stop" ELSE "exit")
  /\ UNCHANGED <<threadTime, threadRunTime, worldInfo, ends>>

\* if stop.is_set(): threadRunTime = 0
WCheckStop ==
  /\ WorldStep("stop", IF stopIsSet THEN "test" ELSE "run")
  /\ threadRunTime' = IF stopIsSet THEN 0 ELSE threadRunTime
  /\ UNCHANGED <<threadTime, worldInfo, ends>>

\* world.run(1) is called
WRun ==
  /\ wpc = "run"
  /\ RunStart(1)

\* world.run(1) has ended: when it returned runWorld goes on, and when it
\* raised, the exception leaves runWorld, which has no try, and the thread
\* ends
WReturn ==
  /\ wpc = "run"
  /\ pc = "done"
  /\ IF runStatus = "raised"
       THEN /\ wpc' = "raised"
            /\ UNCHANGED <<worldVars, ends>>
       ELSE /\ Returned
            /\ wpc' = "compare"
            /\ ends' = IF time + 1 > Len(ends)
                         THEN Append(ends, RosterPos(agents, "a1"))
                         ELSE ends
  /\ UNCHANGED <<gridVars, cellVars, objVars, exploreVars, moveVars>>
  /\ UNCHANGED <<threadTime, threadRunTime, stop, worldInfo, rpc, curTime,
                 agentOldPos, stopTime>>

\* if threadTime != world.time
WCompare ==
  /\ WorldStep("compare", IF threadTime # time THEN "time" ELSE "test")
  /\ UNCHANGED <<threadTime, threadRunTime, worldInfo, ends>>

\* worldInfo['time'] = world.time
WPublishTime ==
  /\ WorldStep("time", "pos")
  /\ worldInfo' = [worldInfo EXCEPT !.time = time]
  /\ UNCHANGED <<threadTime, threadRunTime, ends>>

\* worldInfo['agent1Pos'] = (agent1.x, agent1.y)
WPublishPos ==
  /\ WorldStep("pos", "inc")
  /\ worldInfo' = [worldInfo EXCEPT !.agent1Pos = agent1Pos]
  /\ UNCHANGED <<threadTime, threadRunTime, ends>>

\* threadTime += 1
WInc ==
  /\ WorldStep("inc", "test")
  /\ threadTime' = threadTime + 1
  /\ UNCHANGED <<threadRunTime, worldInfo, ends>>

\* the steps of the thread running runWorld; _tick never refuses there,
\* because the loop ends when threadTime reaches the world's time limit
WorldNext ==
  \/ WTest
  \/ WCheckStop
  \/ WRun
  \/ RunReturn
  \/ TickBegin
  \/ AgentStep
  \/ TickEnd
  \/ TickCounted
  \/ WReturn
  \/ WCompare
  \/ WPublishTime
  \/ WPublishPos
  \/ WInc

\* a step of the main thread in its redraw loop
RenderStep(from, to) ==
  /\ rpc = from
  /\ rpc' = to
  /\ UNCHANGED <<worldVars, gridVars, cellVars, objVars, exploreVars,
                 moveVars>>
  /\ UNCHANGED <<wpc, threadTime, threadRunTime, worldInfo, ends>>

\* while curTime < runtime (runtime is the time limit the world was given)
RTest ==
  /\ RenderStep("test", IF curTime < maxTime THEN "events" ELSE "exit")
  /\ UNCHANGED <<curTime, agentOldPos, stop, stopTime>>

\* the key q was pressed: globalExit.set(); pygame.quit(); sys.exit()
RQuit ==
  /\ RenderStep("events", "exit")
  /\ stop' = TRUE
  /\ stopTime' = time
  /\ UNCHANGED <<curTime, agentOldPos>>

\* no key q: if curTime != worldValues['time']
RReadTime ==
  /\ RenderStep("events",
                IF curTime # worldInfo.time THEN "comparex" ELSE "test")
  /\ UNCHANGED <<curTime, agentOldPos, stop, stopTime>>

\* if worldValues['agent1Pos'][0] != agentOldPos[0] or ...
RCompareX ==
  /\ RenderStep("comparex",
                IF worldInfo.agent1Pos[1] # agentOldPos[1]
                  THEN "copyx" ELSE "comparey")
  /\ UNCHANGED <<curTime, agentOldPos, stop, stopTime>>

\* ... or worldValues['agent1Pos'][1] != agentOldPos[1]
RCompareY ==
  /\ RenderStep("comparey",
                IF worldInfo.agent1Pos[2] # agentOldPos[2]
                  THEN "copyx" ELSE "inc")
  /\ UNCHANGED <<curTime, agentOldPos, stop, stopTime>>

\* the redraw, and agentOldPos[0] = worldValues['agent1Pos'][0]
RCopyX ==
  /\ RenderStep("copyx", "copyy")
  /\ agentOldPos' = <<worldInfo.agent1Pos[1], agentOldPos[2]>>
  /\ UNCHANGED <<curTime, stop, stopTime>>

\* agentOldPos[1] = worldValues['agent1Pos'][1]
RCopyY ==
  /\ RenderStep("copyy", "inc")
  /\ agentOldPos' = <<agentOldPos[1], worldInfo.agent1Pos[2]>>
  /\ UNCHANGED <<curTime, stop, stopTime>>

\* curTime += 1
RInc ==
  /\ RenderStep("inc", "test")
  /\ curTime' = curTime + 1
  /\ UNCHANGED <<agentOldPos, stop, stopTime>>

\* the steps of the main thread
RenderNext ==
  \/ RTest
  \/ RQuit
  \/ RReadTime
  \/ RCompareX
  \/ RCompareY
  \/ RCopyX
  \/ RCopyY
  \/ RInc

NextThread == WorldNext \/ RenderNext

\* rungrid.py when both loops start: a square world with the time limit
\* runtime and capacities 0 and 1, agent1 created at the coordinates of a
\* cell that has room and placed there, and worldValues holding time 0 and
\* those coordinates
InitThread ==
  /\ \E s \in Shapes : s[1] = s[2] /\ h = s[1] /\ w = s[2]
  /\ \E k \in 0 .. 1 :
        capacity = [c \in Cells |-> IF c = <<0, 0>> THEN k ELSE 1]
  /\ maxTime \in 0 .. MaxTime
  /\ time = 0
  /\ \E c \in Cells :
        /\ capacity[c] > 0
        /\ ax = [a \in Agents |-> IF a = "a1" THEN c[1] ELSE 0]
        /\ ay = [a \in Agents |-> IF a = "a1" THEN c[2] ELSE 0]
        /\ occupants = [d \in Cells |-> IF d = c THEN <<"a1">> ELSE <<>>]
        /\ agents = <<[id |-> "a1", x |-> c[1], y |-> c[2]]>>
        /\ frontier = [a \in Agents |->
                         Frontier(<<IF a = "a1" THEN c ELSE <<0, 0>> >>)]
        /\ worldInfo = [time |-> 0, agent1Pos |-> c]
        /\ agentOldPos = c
        /\ ends = <<c>>
  /\ map = [a \in Agents |-> EmptyDict]
  /\ aworld = [a \in Agents |-> "w"]
  /\ NoHistory
  /\ Constructed
  /\ wpc = "test"
  /\ threadTime = 0
  /\ threadRunTime = maxTime
  /\ stop = FALSE
  /\ rpc = "test"
  /\ curTime = 0
  /\ stopTime = 0

SpecThread == InitThread /\ [][NextThread]_vars

\* the thread running runWorld is scheduled again and again; nothing is
\* assumed of the main thread, which waits for events
SpecThreadFair == SpecThread /\ WF_vars(WorldNext)

\* C19 as stated: once globalExit is set no tick begins
C19_NoTickAfterStop == [][stop => time' = time]_vars

\* C19: runWorld examines globalExit only while no tick is under way; no
\* exception ends a tick, and a tick that has begun goes on until every agent
\* has had its turn; once globalExit is set at most one more tick begins,
\* and the loop of runWorld ends
C19_CooperativeStop ==
  /\ [][(wpc = "stop" /\ wpc' # "stop") => pc = "idle"]_vars
  /\ [](err = "none" /\ runStatus # "raised")
  /\ (pc = "agents") ~> (pc = "loop" /\ tickRet /\ idx > Len(agents))
  /\ [](stop => time <= stopTime + 1)
  /\ stop ~> (wpc = "exit")

\* globalExit was set after runWorld had found it clear: one more tick began,
\* it was completed, and the loop ended before the time limit
C19_Witness ==
  /\ stop
  /\ wpc = "exit"
  /\ time = stopTime + 1
  /\ time < maxTime
  /\ Len(ends) = time + 1

\* the published tick count is the world's or one less, and the published
\* position is where agent1 was in the world at the end of the published
\* tick or of the tick before it
SnapshotFresh ==
  /\ worldInfo.time \in {time, time - 1}
  /\ worldInfo.time + 1 <= Len(ends)
  /\ \/ worldInfo.agent1Pos = ends[worldInfo.time + 1]
     \/ /\ worldInfo.time > 0
        /\ worldInfo.agent1Pos = ends[worldInfo.time]

\* C20: whatever the interleaving of the two threads, the snapshot in
\* worldValues is at most one tick stale, and no step of the main thread
\* changes the world or the agents
C20_SnapshotAtMostOneTickStale ==
  /\ []SnapshotFresh
  /\ [][rpc' # rpc => UNCHANGED <<worldVars, exploreVars>>]_vars

\* the main thread has seen a new tick count and reads the position while
\* the world is one tick further and the agent is somewhere else
C20_Witness ==
  /\ rpc = "comparex"
  /\ worldInfo.time = 1
  /\ time = 2
  /\ pc = "done"
  /\ worldInfo.agent1Pos # RosterPos(agents, "a1")

\* C21: embed or place called with a world on an object that has none leaves
\* the object in that world: place has then set the coordinates it was
\* given, and chooseAction called by that world proposes a Move
C21_EmbedsOnce ==
  (/\ objCall.op \in {"embed", "place"}
   /\ objCall.beforeWorld = NoWorld
   /\ objCall.world # NoWorld) =>
    /\ aworld[objCall.object] = objCall.world
    /\ objCall.op = "place" =>
          /\ ax[objCall.object] = objCall.x
          /\ ay[objCall.object] = objCall.y
    /\ \A direction \in North .. West :
          chooseAction(objCall.object, objCall.world, direction).actionCode
            = move

\* C22: every agent of the roster is in the occupant list of exactly one
\* cell, once, and that cell is at the position the roster records for it;
\* and no Move of a registered agent finds the agent missing from its cell
C22_RosterMatchesOccupancy ==
  /\ \A i \in 1 .. Len(agents) :
        /\ CellsOf(agents[i].id, occupants) = {<<agents[i].x, agents[i].y>>}
        /\ Count(agents[i].id, occupants[<<agents[i].x, agents[i].y>>]) = 1
  /\ err # "AttributeError"

\* C23: on a grid of any shape, the Move of an agent that is alone in the
\* world and correctly placed, toward coordinates that are in the grid and
\* whose cell has capacity > 0 and room, takes the agent to that cell, which
\* is what the agent observes; a Move toward coordinates outside the grid
\* leaves it in its cell
C23_MoveOnAnyRectangle ==
  \A a \in Agents :
    (/\ Moved(a)
     /\ PlacedAtTickStart(a)
     /\ Len(pre.agents) = 1
     /\ currentAction[a].actionDirection \in North .. West) =>
      IF /\ Proposed(a) \in Cells
         /\ capacity[Proposed(a)] > 0
         /\ ~occupied(pre.occupants, Proposed(a))
        THEN /\ obs[a] = Proposed(a)
             /\ RosterPos(agents, a) = Proposed(a)
             /\ CellsOf(a, occupants) = {Proposed(a)}
        ELSE Proposed(a) \notin Cells =>
               /\ obs[a] = Origin(a)
               /\ RosterPos(agents, a) = Origin(a)

\* ------------------------------------------- a Move toward a target cell
\* the direction _getDirection names for a target: that of a target in the
\* agent's own row or column, Nowhere for its own position and for any other
\* target
directionOf(a, target) ==
  IF target[1] = ax[a]
    THEN IF target[2] = ay[a] THEN Nowhere
         ELSE IF target[2] > ay[a] THEN South
         ELSE North
  ELSE IF target[1] < ax[a]
    THEN IF target[2] # ay[a] THEN Nowhere ELSE West
  ELSE IF target[2] # ay[a] THEN Nowhere ELSE East

\* GridAgent._getDirection(target): the direction is read from self._world
\* (self._world.Nowhere, ...), which raises AttributeError on an agent that
\* has no world
getDirection(a, target) ==
  IF aworld[a] = NoWorld
    THEN [direction |-> Nowhere, err |-> "AttributeError"]
    ELSE [direction |-> directionOf(a, target), err |-> "none"]

\* world._applyAction(Action(a, Action.move, None, a._getDirection(target))):
\* the world resolves a Move whose direction the agent took from a target;
\* when _getDirection raises, _applyAction is not called
MoveToward(a, target) ==
  /\ pc = "idle"
  /\ LET d == getDirection(a, target)
         action == Action(a, move, d.direction)
         r == applyAction(action)
     IN  IF d.err # "none"
           THEN /\ UNCHANGED <<occupants, agents>>
                /\ moveCall' = [op |-> "_getDirection", agent |-> a,
                                target |-> target, direction |-> Nowhere,
                                occupants |-> occupants, agents |-> agents,
                                ret |-> None, err |-> d.err]
           ELSE /\ occupants' = r.occ
                /\ agents' = r.agents
                /\ moveCall' = [op |-> "_applyAction", agent |-> a,
                                target |-> target,
                                direction |-> action.actionDirection,
                                occupants |-> occupants, agents |-> agents,
                                ret |-> r.ret, err |-> r.err]
  /\ UNCHANGED <<h, w, capacity, maxTime, time, ax, ay, aworld, currentAction,
                 pc, idx, runArgs, runStatus, tickRet, err, lastCall, obs, pre>>
  /\ UNCHANGED <<gridVars, cellVars, objVars, exploreVars, threadVars>>

\* the one agent of the world is sent toward any cell of the grid or of its
\* rim
NextMove == \E target \in Origins : MoveToward("a1", target)

SpecMove == InitExplore /\ [][NextMove]_vars

\* the agent of the last Move was correctly placed when the Move was applied
PlacedAtMove ==
  /\ moveCall.op = "_applyAction"
  /\ PlacedIn(moveCall.agent, moveCall.occupants, moveCall.agents, ax, ay)

\* C24: a Move whose direction is Nowhere, as _getDirection returns it for the
\* agent's own position and for a diagonal target, leaves the agent in its
\* cell and every occupant list unchanged, and returns that cell; canGo asked
\* with Nowhere on the agent's cell reports no neighbour as reachable
C24_MoveNowhereStays ==
  (PlacedAtMove /\ moveCall.direction = Nowhere) =>
    /\ occupants = moveCall.occupants
    /\ agents = moveCall.agents
    /\ moveCall.ret = RosterPos(moveCall.agents, moveCall.agent)
    /\ ~canGo(moveCall.occupants,
              RosterPos(moveCall.agents, moveCall.agent), Nowhere)
====
